---- MODULE Spec2Model ----
(***************************************************************************)
(* EcoTrack REST backend (src/index.js, lines 1-791: the revision in use). *)
(*                                                                         *)
(* The document store is the variable db, one field per collection.  Each  *)
(* client session has one request in progress at a time; a handler is a    *)
(* sequence of steps, one per awaited store operation, and the steps of    *)
(* different clients interleave.  Every store operation (findOne,          *)
(* insertOne, updateOne, deleteOne) is atomic on its own.                  *)
(*                                                                         *)
(* Abstractions: a challenge's createdAt and updatedAt and a user's         *)
(* createdAt and lastLogin are read from the clock now, the other          *)
(* timestamps (joinDate, lastUpdated, finishedAt) are left out; route      *)
(* identifiers are well-formed ObjectIds; store operations throw only      *)
(* under FailSpec and CounterSpec; the store starts empty, or holding what *)
(* POST /api/challenges, Join or the earlier revision of Join (lines       *)
(* 1155-1188) wrote; the users collection is the sequence of its           *)
(* documents; the completedSteps array, which the code only tests with     *)
(* includes, extends with push and measures with length, is the bag of     *)
(* its elements (the order of the steps is never read).                    *)
(***************************************************************************)
EXTENDS Integers, Sequences, FiniteSets, Bags, TLC

(***************************************************************************)
(* Bounds of the model: documents ever inserted per collection, and the    *)
(* magnitudes of a tip's upvotes counter, of an enrollment's counters and  *)
(* of the clock.                                                           *)
(***************************************************************************)
MaxChallenges == 1
MaxTips == 1
MaxEnrollments == 2
MaxStats == 2
MaxVotes == 2
MaxCount == 2
MaxTime == 2

Clients == {1, 2}
Emails == {"alice", "bob"}

VARIABLES
    db,         \* the collections of ecoTrackDB
    req,        \* req[p]: the request client p has in progress, or its response
    clients,    \* the client sessions that send requests
    principal,  \* principal[p]: the email the identity provider verifies for p
    inputs,     \* the values request parameters and bodies are drawn from
    now         \* the time new Date() returns

vars == <<db, req, clients, principal, inputs, now>>

(***************************************************************************)
(* JavaScript numbers that a progress field can hold.                      *)
(***************************************************************************)
Fin(n) == [kind |-> "finite", n |-> n]
Infinity == [kind |-> "Infinity", n |-> 0]
NaN == [kind |-> "NaN", n |-> 0]

\* x >= k on JavaScript numbers (a comparison with NaN is false)
Geq(x, k) == x.kind = "Infinity" \/ (x.kind = "finite" /\ x.n >= k)

\* Math.floor((completedSteps.length / userChallenge.totalActions) * 100);
\* the quotient is exact in floating point for the totals the inputs hold
FloorPercent(len, totalActions) ==
    IF totalActions = 0
    THEN (IF len = 0 THEN NaN ELSE Infinity)
    ELSE Fin((len * 100) \div totalActions)

\* a field that the document does not have reads as undefined
Undefined == [kind |-> "undefined", n |-> 0]
NegInfinity == [kind |-> "-Infinity", n |-> 0]

Field(doc, f) == IF f \in DOMAIN doc THEN doc[f] ELSE Undefined

\* body.f || 0 for a numeric field of a request body
OrZero(body, f) == IF f \in DOMAIN body THEN body[f] ELSE 0

\* x + k for a stored number x and a number k of the request: undefined + k
\* and NaN + k are NaN
Plus(x, k) ==
    CASE x.kind = "finite" -> Fin(x.n + k)
      [] x.kind \in {"Infinity", "-Infinity"} -> x
      [] OTHER -> NaN

\* totalActions || existing.totalActions
Divisor(body, existing) ==
    IF OrZero(body, "totalActions") # 0
    THEN body.totalActions ELSE existing.totalActions

\* Math.min((newActionsCompleted / divisor) * 100, 100); the quotient is exact
\* for the divisors the inputs hold
NewProgress(newActionsCompleted, divisor) ==
    CASE newActionsCompleted.kind # "finite" -> NaN
      [] divisor = 0 ->
            IF newActionsCompleted.n = 0 THEN NaN
            ELSE IF newActionsCompleted.n > 0 THEN Fin(100) ELSE NegInfinity
      [] OTHER ->
            LET x == (newActionsCompleted.n * 100) \div divisor
            IN  Fin(IF x < 100 THEN x ELSE 100)

\* newProgress === 100 ? "Completed" : "In Progress"
UpdateStatus(newProgress) ==
    IF newProgress = Fin(100) THEN "Completed" ELSE "In Progress"

(***************************************************************************)
(* Requests.                                                               *)
(***************************************************************************)
NoBody == [none |-> TRUE]
NoPrev == [status |-> 0, voted |-> "", before |-> NoBody]

Idle == [op |-> "idle", pc |-> "idle", token |-> "", id |-> 0, userId |-> "",
         stepId |-> "", body |-> NoBody, local |-> NoBody, status |-> 0,
         voted |-> "", before |-> NoBody, prev |-> NoPrev, at |-> 0]

\* a request as it arrives: route, bearer token, parameters, body.  before is
\* the store at that moment; prev is kept when the client repeats a request.
Arrive(op, token, id, userId, stepId, body) ==
    [op |-> op, pc |-> "start", token |-> token, id |-> id, userId |-> userId,
     stepId |-> stepId, body |-> body, local |-> NoBody, status |-> 0,
     voted |-> "", before |-> db, prev |-> NoPrev, at |-> now]

\* res.status(code).json(...) or res.send(...): the handler is finished
Respond(r, code) == [r EXCEPT !.pc = "done", !.status = code]

InFlight(p) == req[p].pc \notin {"idle", "done"}
At(p, op, pc) == p \in clients /\ req[p].op = op /\ req[p].pc = pc

\* async function verifyFirebaseToken: 401 without a bearer token, 403 when the
\* identity provider rejects it, else next() is called (0)
verifyFirebaseToken(token) ==
    CASE token = "none" -> 401
      [] token = "bad" -> 403
      [] OTHER -> 0

\* the routes registered with the verifyFirebaseToken middleware
Protected ==
    {"postUser", "postChallenge", "patchChallenge", "deleteChallenge", "join",
     "updateProgress", "postTip", "putTip", "upvote", "deleteTip"}

ChallengeIds == 1..MaxChallenges
TipIds == 1..MaxTips
EnrollmentIds == 1..MaxEnrollments

(***************************************************************************)
(* Documents and update operators of the store.                            *)
(***************************************************************************)
\* updateOne(..., { $set: upd }) on document doc
Set(doc, upd) ==
    [f \in DOMAIN doc \cup DOMAIN upd |->
        IF f \in DOMAIN upd THEN upd[f] ELSE doc[f]]

\* delete updated._id; delete updated.createdBy
StripOwner(body) ==
    [f \in DOMAIN body \ {"_id", "createdBy"} |-> body[f]]

\* insertOne(doc) into a collection keyed by fresh identifiers
Insert(coll, id, doc) ==
    [i \in DOMAIN coll \cup {id} |-> IF i = id THEN doc ELSE coll[i]]

\* deleteOne({ _id })
Remove(coll, id) == [i \in DOMAIN coll \ {id} |-> coll[i]]

\* challenges.updateOne({ _id }, { $set: upd }): matches nothing when absent
SetChallenge(id, upd) ==
    IF id \in DOMAIN db.challenges
    THEN [db EXCEPT !.challenges[id] = Set(@, upd)]
    ELSE db

\* challenges.updateOne({ _id }, { $inc: { participants: 1 } })
IncParticipants(id) ==
    IF id \in DOMAIN db.challenges
    THEN [db EXCEPT !.challenges[id].participants = @ + 1]
    ELSE db

\* mutant: the query names the email field instead of userId
alreadyJoinedByEmail(userId, challengeId) ==
    \E i \in 1..Len(db.userChallenges) :
        /\ db.userChallenges[i].email = userId
        /\ db.userChallenges[i].challengeId = challengeId

\* userChallenges.findOne({ userId, challengeId }) is not null
alreadyJoined(userId, challengeId) ==
    \E i \in 1..Len(db.userChallenges) :
        /\ db.userChallenges[i].userId = userId
        /\ db.userChallenges[i].challengeId = challengeId

\* Number(challenge?.totalActions) || 0
NumberOrZero(challenge) ==
    IF "totalActions" \in DOMAIN challenge THEN challenge.totalActions ELSE 0

\* the userChallenge document Join builds from the challenge it read
NewUserChallenge(email, userId, challengeId, challenge) ==
    [email |-> email,
     userId |-> userId,
     challengeId |-> challengeId,
     status |-> "Not Started",
     progress |-> Fin(0),
     completedSteps |-> EmptyBag,
     totalActions |-> NumberOrZero(challenge)]

\* userChallenge.completedSteps || []
StepsOf(userChallenge) ==
    IF "completedSteps" \in DOMAIN userChallenge
    THEN userChallenge.completedSteps ELSE EmptyBag

\* mutant: push without the includes test
PushStepAlways(completedSteps, stepId) ==
    completedSteps (+) SetToBag({stepId})

\* if (!completedSteps.includes(stepId)) completedSteps.push(stepId)
PushStep(completedSteps, stepId) ==
    IF BagIn(stepId, completedSteps)
    THEN completedSteps
    ELSE completedSteps (+) SetToBag({stepId})

\* mutant: progress > 100 instead of progress >= 100
StepStatusAbove(progress) == IF Geq(progress, 101) THEN "completed" ELSE "active"

\* const status = progress >= 100 ? "completed" : "active"
StepStatus(progress) == IF Geq(progress, 100) THEN "completed" ELSE "active"

\* the livestatics document complete-step builds
NewLiveStatistic(userChallenge, challenge) ==
    [email |-> userChallenge.email,
     userId |-> userChallenge.userId,
     challengeId |-> userChallenge.challengeId,
     challengeTitle |-> challenge.title,
     category |-> challenge.category]

\* mutant: the toggle-off update without $pull
VoteOffKeepUser(tip, userEmail) == [tip EXCEPT !.upvotes = @ - 1]

\* $inc: { upvotes: -1 }, $pull: { upvotedUsers: userEmail }
VoteOff(tip, userEmail) ==
    [tip EXCEPT !.upvotes = @ - 1, !.upvotedUsers = @ \ {userEmail}]

\* $inc: { upvotes: 1 }, $addToSet: { upvotedUsers: userEmail }
VoteOn(tip, userEmail) ==
    [tip EXCEPT !.upvotes = @ + 1, !.upvotedUsers = @ \cup {userEmail}]

\* !title || !category || !content
MissingField(body) ==
    \E f \in {"title", "category", "content"} : f \notin DOMAIN body

Frame == UNCHANGED <<clients, principal, inputs, now>>

\* time passes
Tick ==
    /\ now < MaxTime
    /\ now' = now + 1
    /\ UNCHANGED <<db, req, clients, principal, inputs>>

(***************************************************************************)
(* Requests the clients send, drawn from inputs.                           *)
(***************************************************************************)
ChallengeBodies ==
    {[createdBy |-> e, totalActions |-> t, title |-> c.title,
      category |-> c.category, participants |-> 0] :
        e \in inputs.owners, t \in inputs.totals, c \in inputs.contents}

\* a PATCH body: new title and category, with or without _id and createdBy,
\* or a new value of participants
PatchBodies ==
    inputs.contents \cup
    {[title |-> c.title, category |-> c.category, createdBy |-> e, _id |-> 0] :
        c \in inputs.contents, e \in inputs.owners} \cup
    (IF "counts" \in DOMAIN inputs
     THEN {[participants |-> n] : n \in inputs.counts}
     ELSE {})

TipBodies ==
    {[author |-> e, title |-> "Tip", category |-> "Waste", content |-> x,
      upvotes |-> 0, upvotedUsers |-> {}] :
        e \in inputs.owners, x \in inputs.texts}

\* a PUT body: the three fields, or the title alone
PutBodies ==
    {[title |-> "Tip", category |-> "Waste", content |-> x] : x \in inputs.texts}
    \cup {[title |-> "Tip"]}

\* a body of PATCH /api/user-challenges/update/:id: each of the four fields
\* is optional
UpdateFields ==
    {"actionsCompleted", "totalActions", "co2PerAction", "plasticPerAction"}

UpdateValues(f) ==
    CASE f = "actionsCompleted" -> inputs.actions
      [] f = "totalActions" -> inputs.divisors
      [] OTHER -> inputs.deltas

UpdateBodies ==
    UNION {{b \in [F -> inputs.actions \cup inputs.divisors \cup inputs.deltas] :
                \A f \in F : b[f] \in UpdateValues(f)} :
           F \in SUBSET UpdateFields}

\* a body of POST /api/user: { name, email }
UserBodies == {[name |-> n, email |-> e] : n \in inputs.names, e \in Emails}

Requests(op) ==
    CASE op = "postUser" ->
            {Arrive(op, t, 0, "", "", b) : t \in inputs.tokens, b \in UserBodies}
      [] op = "postChallenge" ->
            {Arrive(op, t, 0, "", "", b) : t \in inputs.tokens, b \in ChallengeBodies}
      [] op = "patchChallenge" ->
            {Arrive(op, t, id, "", "", b) :
                t \in inputs.tokens, id \in ChallengeIds, b \in PatchBodies}
      [] op = "deleteChallenge" ->
            {Arrive(op, t, id, "", "", NoBody) :
                t \in inputs.tokens, id \in ChallengeIds}
      [] op = "join" ->
            {Arrive(op, t, id, u, "", NoBody) :
                t \in inputs.tokens, id \in ChallengeIds, u \in inputs.userIds}
      [] op = "updateProgress" ->
            {Arrive(op, t, id, "", "", b) :
                t \in inputs.tokens, id \in EnrollmentIds, b \in UpdateBodies}
      [] op = "completeStep" ->
            {Arrive(op, t, id, "", s, NoBody) :
                t \in inputs.tokens, id \in EnrollmentIds, s \in inputs.stepIds}
      [] op = "postTip" ->
            {Arrive(op, t, 0, "", "", b) : t \in inputs.tokens, b \in TipBodies}
      [] op = "putTip" ->
            {Arrive(op, t, id, "", "", b) :
                t \in inputs.tokens, id \in TipIds, b \in PutBodies}
      [] op = "upvote" ->
            {Arrive(op, t, id, "", "", NoBody) : t \in inputs.tokens, id \in TipIds}
      [] op = "deleteTip" ->
            {Arrive(op, t, id, "", "", NoBody) : t \in inputs.tokens, id \in TipIds}
      [] op = "globalStats" ->
            {Arrive(op, t, 0, "", "", NoBody) : t \in inputs.tokens}

Pending(op) == Cardinality({q \in Clients : req[q].op = op /\ InFlight(q)})

\* the bounds: no request that could take a collection or a counter past them
WithinBounds(op) ==
    CASE op = "postChallenge" ->
            db.nextChallenge + Pending(op) <= MaxChallenges
      [] op = "postTip" ->
            db.nextTip + Pending(op) <= MaxTips
      [] op = "join" ->
            /\ Len(db.userChallenges) + Pending(op) < MaxEnrollments
            /\ \A c \in DOMAIN db.challenges :
                   db.challenges[c].participants < MaxEnrollments
      [] op = "completeStep" ->
            Len(db.livestatics) + Pending(op) < MaxStats
      [] op = "updateProgress" ->
            \A i \in 1..Len(db.userChallenges) :
                \A f \in {"actionsCompleted", "co2Saved", "plasticReduced"} :
                    LET x == Field(db.userChallenges[i], f)
                    IN  x.kind = "finite" => (x.n < MaxCount /\ x.n > 0 - MaxCount)
      [] op = "upvote" ->
            \A t \in DOMAIN db.tips :
                /\ db.tips[t].upvotes + Pending(op) < MaxVotes
                /\ db.tips[t].upvotes - Pending(op) > 0 - MaxVotes
      [] OTHER -> TRUE

\* express runs the middleware of the route, then the handler
Dispatch(r) ==
    IF r.op \in Protected /\ verifyFirebaseToken(r.token) # 0
    THEN Respond(r, verifyFirebaseToken(r.token))
    ELSE r

\* client p sends a request to one of the routes
Send(p, routes) ==
    /\ p \in clients
    /\ req[p].pc = "idle"
    /\ \E op \in routes :
        /\ WithinBounds(op)
        /\ \E r \in Requests(op) : req' = [req EXCEPT ![p] = Dispatch(r)]
    /\ UNCHANGED db
    /\ Frame

\* client p, having read the response, sends the same request once more
Resend(p) ==
    /\ p \in clients
    /\ req[p].pc = "done"
    /\ req[p].prev = NoPrev
    /\ WithinBounds(req[p].op)
    /\ req' = [req EXCEPT ![p] =
            Dispatch([Arrive(@.op, @.token, @.id, @.userId, @.stepId, @.body)
                EXCEPT !.prev = [status |-> req[p].status,
                                 voted |-> req[p].voted,
                                 before |-> req[p].before]])]
    /\ UNCHANGED db
    /\ Frame

\* client p reads the response and is free to send another request
Retire(p) ==
    /\ p \in clients
    /\ req[p].pc = "done"
    /\ req' = [req EXCEPT ![p] = Idle]
    /\ UNCHANGED db
    /\ Frame

(***************************************************************************)
(* Failing store operations.                                               *)
(***************************************************************************)
\* the routes whose handler awaits the store inside try { } catch { }
Guarded ==
    {"postUser", "patchChallenge", "join", "updateProgress", "completeStep",
     "putTip", "upvote", "deleteTip", "globalStats"}

\* the store operation client p's handler is waiting for throws: a catch
\* block answers 500 with a JSON message; without one the rejection leaves
\* the handler
StoreThrows(p) ==
    /\ p \in clients
    /\ InFlight(p)
    /\ req[p].pc # "escaped"
    /\ req' = [req EXCEPT ![p] =
            IF req[p].op \in Guarded
            THEN Respond(@, 500)
            ELSE [@ EXCEPT !.pc = "escaped"]]
    /\ UNCHANGED db
    /\ Frame

\* what becomes of a rejection that left the handler depends on the express
\* release: release 4 ignores the promise and the request is never answered;
\* release 5 passes the error to its default error handler, which answers
\* 500 with an HTML page
DefaultErrorHandler(p) ==
    /\ At(p, req[p].op, "escaped")
    /\ req' = [req EXCEPT ![p] = Respond([@ EXCEPT !.local = [sent |-> "html"]], 500)]
    /\ UNCHANGED db
    /\ Frame

(***************************************************************************)
(* POST /api/user                                                          *)
(***************************************************************************)
\* the documents of users that match { email }, by position
UsersWith(email) == {i \in 1..Len(db.users) : db.users[i].email = email}

\* users.findOne({ email })
UserFind(p) ==
    /\ At(p, "postUser", "start")
    /\ req' = [req EXCEPT ![p] =
            IF req[p].body.email # principal[p]
            THEN Respond(@, 403)
            ELSE IF UsersWith(req[p].body.email) # {}
            THEN [@ EXCEPT !.pc = "update"]
            ELSE [@ EXCEPT !.pc = "insert"]]
    /\ UNCHANGED db
    /\ Frame

\* users.updateOne({ email }, { $set: { name, lastLogin } }): the first
\* document that matches
UserUpdate(p) ==
    /\ At(p, "postUser", "update")
    /\ db' = LET found == UsersWith(req[p].body.email)
             IN  IF found # {}
                 THEN LET i == CHOOSE i \in found : \A j \in found : i <= j
                      IN  [db EXCEPT !.users[i] =
                              Set(@, [name |-> req[p].body.name,
                                      lastLogin |-> now])]
                 ELSE db
    /\ req' = [req EXCEPT ![p] = Respond(@, 200)]
    /\ Frame

\* users.insertOne({ name, email, createdAt, lastLogin })
UserInsert(p) ==
    /\ At(p, "postUser", "insert")
    /\ db' = [db EXCEPT !.users =
                Append(@, [name |-> req[p].body.name,
                           email |-> req[p].body.email,
                           createdAt |-> now, lastLogin |-> now])]
    /\ req' = [req EXCEPT ![p] = Respond(@, 201)]
    /\ Frame

(***************************************************************************)
(* GET /api/global-stats                                                   *)
(***************************************************************************)
\* userChallenges.countDocuments({ status: "completed" })
CountCompleted ==
    Cardinality({i \in 1..Len(db.userChallenges) :
                    db.userChallenges[i].status = "completed"})

\* const totalUsers = await users.countDocuments()
StatsUsers(p) ==
    /\ At(p, "globalStats", "start")
    /\ req' = [req EXCEPT ![p].pc = "joined",
                          ![p].local = [totalUsers |-> Len(db.users)]]
    /\ UNCHANGED db
    /\ Frame

\* const totalJoined = await userChallenges.countDocuments()
StatsJoined(p) ==
    /\ At(p, "globalStats", "joined")
    /\ req' = [req EXCEPT ![p].pc = "completed",
                          ![p].local = Set(@, [totalJoined |->
                                                  Len(db.userChallenges)])]
    /\ UNCHANGED db
    /\ Frame

\* const totalCompleted = await userChallenges.countDocuments({ status });
\* res.json({ success: true, stats })
StatsCompleted(p) ==
    /\ At(p, "globalStats", "completed")
    /\ req' = [req EXCEPT ![p] =
            Respond([@ EXCEPT !.local =
                        Set(@, [totalCompleted |-> CountCompleted])], 200)]
    /\ UNCHANGED db
    /\ Frame

(***************************************************************************)
(* POST /api/challenges                                                    *)
(***************************************************************************)
PostChallenge(p) ==
    /\ At(p, "postChallenge", "start")
    /\ db' = [db EXCEPT !.challenges =
                Insert(@, db.nextChallenge,
                       Set(req[p].body, [_id |-> db.nextChallenge,
                                         createdAt |-> now,
                                         updatedAt |-> now])),
                        !.nextChallenge = @ + 1]
    /\ req' = [req EXCEPT ![p] = Respond(@, 200)]
    /\ Frame

(***************************************************************************)
(* PATCH /api/challenges/:id                                               *)
(***************************************************************************)
\* mutant: the body is merged as it came, with its _id and createdBy
PatchChallengeFindUnstripped(p) ==
    /\ At(p, "patchChallenge", "start")
    /\ req' = [req EXCEPT ![p] =
            IF req[p].id \notin DOMAIN db.challenges
            THEN Respond(@, 500)
            ELSE IF db.challenges[req[p].id].createdBy # principal[p]
            THEN Respond(@, 403)
            ELSE [@ EXCEPT !.pc = "update",
                           !.local = Set(req[p].body, [updatedAt |-> now])]]
    /\ UNCHANGED db
    /\ Frame

PatchChallengeFind(p) ==
    /\ At(p, "patchChallenge", "start")
    /\ req' = [req EXCEPT ![p] =
            IF req[p].id \notin DOMAIN db.challenges
            THEN Respond(@, 500)   \* challenge.createdBy throws on null: catch
            ELSE IF db.challenges[req[p].id].createdBy # principal[p]
            THEN Respond(@, 403)
            ELSE [@ EXCEPT !.pc = "update",
                           !.local = Set(StripOwner(req[p].body),
                                         [updatedAt |-> now])]]
    /\ UNCHANGED db
    /\ Frame

PatchChallengeUpdate(p) ==
    /\ At(p, "patchChallenge", "update")
    /\ db' = SetChallenge(req[p].id, req[p].local)
    /\ req' = [req EXCEPT ![p].pc = "refetch"]
    /\ Frame

PatchChallengeRefetch(p) ==
    /\ At(p, "patchChallenge", "refetch")
    /\ req' = [req EXCEPT ![p] = Respond(@, 200)]
    /\ UNCHANGED db
    /\ Frame

(***************************************************************************)
(* DELETE /api/challenges/:id                                              *)
(***************************************************************************)
\* mutant: no ownership test
DeleteChallengeFindAnyone(p) ==
    /\ At(p, "deleteChallenge", "start")
    /\ req' = [req EXCEPT ![p] =
            IF req[p].id \notin DOMAIN db.challenges
            THEN Respond(@, 404)
            ELSE [@ EXCEPT !.pc = "delete"]]
    /\ UNCHANGED db
    /\ Frame

DeleteChallengeFind(p) ==
    /\ At(p, "deleteChallenge", "start")
    /\ req' = [req EXCEPT ![p] =
            IF req[p].id \notin DOMAIN db.challenges
            THEN Respond(@, 404)
            ELSE IF db.challenges[req[p].id].createdBy # principal[p]
            THEN Respond(@, 403)
            ELSE [@ EXCEPT !.pc = "delete"]]
    /\ UNCHANGED db
    /\ Frame

DeleteChallengeDelete(p) ==
    /\ At(p, "deleteChallenge", "delete")
    /\ db' = [db EXCEPT !.challenges = Remove(@, req[p].id)]
    /\ req' = [req EXCEPT ![p] = Respond(@, 200)]
    /\ Frame

(***************************************************************************)
(* POST /api/challenges/join/:id                                           *)
(***************************************************************************)
JoinCheck(p) ==
    /\ At(p, "join", "start")
    /\ req' = [req EXCEPT ![p] =
            IF alreadyJoined(req[p].userId, req[p].id)
            THEN Respond(@, 400)
            ELSE [@ EXCEPT !.pc = "find"]]
    /\ UNCHANGED db
    /\ Frame

\* mutant: no 404 when the challenge is absent
JoinFindUnchecked(p) ==
    /\ At(p, "join", "find")
    /\ req' = [req EXCEPT ![p] =
            [@ EXCEPT !.pc = "inc",
                      !.local = IF req[p].id \in DOMAIN db.challenges
                                THEN db.challenges[req[p].id] ELSE NoBody]]
    /\ UNCHANGED db
    /\ Frame

JoinFind(p) ==
    /\ At(p, "join", "find")
    /\ req' = [req EXCEPT ![p] =
            IF req[p].id \notin DOMAIN db.challenges
            THEN Respond(@, 404)
            ELSE [@ EXCEPT !.pc = "inc", !.local = db.challenges[req[p].id]]]
    /\ UNCHANGED db
    /\ Frame

JoinInc(p) ==
    /\ At(p, "join", "inc")
    /\ db' = IncParticipants(req[p].id)
    /\ req' = [req EXCEPT ![p].pc = "insert"]
    /\ Frame

\* mutant: the insert looks for the pair once more and, finding it, takes
\* the increment back instead of inserting
JoinInsertCompensating(p) ==
    /\ At(p, "join", "insert")
    /\ db' = IF alreadyJoined(req[p].userId, req[p].id)
             THEN IF req[p].id \in DOMAIN db.challenges
                  THEN [db EXCEPT !.challenges[req[p].id].participants = @ - 1]
                  ELSE db
             ELSE [db EXCEPT !.userChallenges =
                      Append(@, NewUserChallenge(principal[p], req[p].userId,
                                                 req[p].id, req[p].local))]
    /\ req' = [req EXCEPT ![p] = Respond(@, 200)]
    /\ Frame

JoinInsert(p) ==
    /\ At(p, "join", "insert")
    /\ db' = [db EXCEPT !.userChallenges =
                Append(@, NewUserChallenge(principal[p], req[p].userId,
                                           req[p].id, req[p].local))]
    /\ req' = [req EXCEPT ![p] = Respond(@, 200)]
    /\ Frame

(***************************************************************************)
(* PATCH /api/user-challenges/:id/complete-step                            *)
(***************************************************************************)
\* the handler reads the enrollment; completedSteps, progress and status are
\* computed from the copy it read
StepFind(p) ==
    /\ At(p, "completeStep", "start")
    /\ req' = [req EXCEPT ![p] =
            IF req[p].id > Len(db.userChallenges)
            THEN Respond(@, 404)
            ELSE LET userChallenge == db.userChallenges[req[p].id]
                     completedSteps ==
                         PushStep(StepsOf(userChallenge), req[p].stepId)
                     progress == FloorPercent(BagCardinality(completedSteps),
                                              userChallenge.totalActions)
                 IN [@ EXCEPT !.pc = "update",
                              !.local = [userChallenge |-> userChallenge,
                                         completedSteps |-> completedSteps,
                                         progress |-> progress,
                                         status |-> StepStatus(progress)]]]
    /\ UNCHANGED db
    /\ Frame

\* mutant: the step is added to the stored array ($addToSet) and progress is
\* computed from the array as stored, not from the copy the handler read
StepUpdateAddToSet(p) ==
    /\ At(p, "completeStep", "update")
    /\ LET completedSteps ==
               PushStep(StepsOf(db.userChallenges[req[p].id]), req[p].stepId)
           progress ==
               FloorPercent(BagCardinality(completedSteps),
                            db.userChallenges[req[p].id].totalActions)
       IN  /\ db' = [db EXCEPT !.userChallenges[req[p].id] =
                       Set(@, [completedSteps |-> completedSteps,
                               progress |-> progress,
                               status |-> StepStatus(progress)])]
           /\ req' = [req EXCEPT ![p].pc =
                       IF Geq(progress, 100) THEN "challenge" ELSE "refetch"]
    /\ Frame

StepUpdate(p) ==
    /\ At(p, "completeStep", "update")
    /\ db' = [db EXCEPT !.userChallenges[req[p].id] =
                Set(@, [completedSteps |-> req[p].local.completedSteps,
                        progress |-> req[p].local.progress,
                        status |-> req[p].local.status])]
    /\ req' = [req EXCEPT ![p].pc =
                IF Geq(req[p].local.progress, 100) THEN "challenge" ELSE "refetch"]
    /\ Frame

\* if finished, the parent challenge is looked up; without it no entry is made
StepChallenge(p) ==
    /\ At(p, "completeStep", "challenge")
    /\ LET challengeId == req[p].local.userChallenge.challengeId
       IN  req' = [req EXCEPT ![p] =
               IF challengeId \in DOMAIN db.challenges
               THEN [@ EXCEPT !.pc = "statistic",
                              !.local = Set(@, [challenge |->
                                                  db.challenges[challengeId]])]
               ELSE [@ EXCEPT !.pc = "refetch"]]
    /\ UNCHANGED db
    /\ Frame

StepStatistic(p) ==
    /\ At(p, "completeStep", "statistic")
    /\ db' = [db EXCEPT !.livestatics =
                Append(@, NewLiveStatistic(req[p].local.userChallenge,
                                           req[p].local.challenge))]
    /\ req' = [req EXCEPT ![p].pc = "refetch"]
    /\ Frame

StepRefetch(p) ==
    /\ At(p, "completeStep", "refetch")
    /\ req' = [req EXCEPT ![p] = Respond(@, 200)]
    /\ UNCHANGED db
    /\ Frame

(***************************************************************************)
(* POST /api/tips                                                          *)
(***************************************************************************)
PostTip(p) ==
    /\ At(p, "postTip", "start")
    /\ db' = [db EXCEPT !.tips = Insert(@, db.nextTip, req[p].body),
                        !.nextTip = @ + 1]
    /\ req' = [req EXCEPT ![p] = Respond(@, 200)]
    /\ Frame

(***************************************************************************)
(* PUT /api/tips/:id                                                       *)
(***************************************************************************)
PutTipFind(p) ==
    /\ At(p, "putTip", "start")
    /\ req' = [req EXCEPT ![p] =
            IF req[p].id \notin DOMAIN db.tips
            THEN Respond([@ EXCEPT !.local = [sent |-> "tips not found"]], 200)
            ELSE IF db.tips[req[p].id].author # principal[p]
            THEN Respond(@, 403)
            ELSE IF MissingField(req[p].body)
            THEN Respond(@, 400)
            ELSE [@ EXCEPT !.pc = "update"]]
    /\ UNCHANGED db
    /\ Frame

\* updateOne; modifiedCount is 0 when no tip matches or nothing changes
PutTipUpdate(p) ==
    /\ At(p, "putTip", "update")
    /\ LET id == req[p].id
           modified == /\ id \in DOMAIN db.tips
                       /\ Set(db.tips[id], req[p].body) # db.tips[id]
       IN  /\ db' = IF modified
                    THEN [db EXCEPT !.tips[id] = Set(@, req[p].body)]
                    ELSE db
           /\ req' = [req EXCEPT ![p] = Respond(@, IF modified THEN 200 ELSE 404)]
    /\ Frame

(***************************************************************************)
(* PUT /api/tips/:id/upvote                                                *)
(***************************************************************************)
\* mutant: no test of the author
UpvoteFindAnyone(p) ==
    /\ At(p, "upvote", "start")
    /\ req' = [req EXCEPT ![p] =
            IF req[p].id \notin DOMAIN db.tips
            THEN Respond(@, 404)
            ELSE [@ EXCEPT !.pc = "update",
                           !.local = [alreadyVoted |->
                               principal[p] \in db.tips[req[p].id].upvotedUsers]]]
    /\ UNCHANGED db
    /\ Frame

UpvoteFind(p) ==
    /\ At(p, "upvote", "start")
    /\ req' = [req EXCEPT ![p] =
            IF req[p].id \notin DOMAIN db.tips
            THEN Respond(@, 404)
            ELSE IF db.tips[req[p].id].author = principal[p]
            THEN Respond(@, 400)
            ELSE [@ EXCEPT !.pc = "update",
                           !.local = [alreadyVoted |->
                               principal[p] \in db.tips[req[p].id].upvotedUsers]]]
    /\ UNCHANGED db
    /\ Frame

\* mutant: the counter is written back from the tip as the handler read it
\* ($set of a computed value) instead of being incremented in the store
UpvoteUpdateWriteBack(p) ==
    /\ At(p, "upvote", "update")
    /\ LET id == req[p].id
           alreadyVoted == req[p].local.alreadyVoted
           read == IF id \in DOMAIN req[p].before.tips
                   THEN req[p].before.tips[id].upvotes ELSE 0
       IN  /\ db' = IF id \notin DOMAIN db.tips THEN db
                    ELSE IF alreadyVoted
                    THEN [db EXCEPT !.tips[id] =
                             [VoteOff(@, principal[p]) EXCEPT !.upvotes = read - 1]]
                    ELSE [db EXCEPT !.tips[id] =
                             [VoteOn(@, principal[p]) EXCEPT !.upvotes = read + 1]]
           /\ req' = [req EXCEPT ![p] =
                   Respond([@ EXCEPT !.voted =
                               IF alreadyVoted THEN "false" ELSE "true"], 200)]
    /\ Frame

UpvoteUpdate(p) ==
    /\ At(p, "upvote", "update")
    /\ LET id == req[p].id
           alreadyVoted == req[p].local.alreadyVoted
       IN  /\ db' = IF id \notin DOMAIN db.tips THEN db
                    ELSE IF alreadyVoted
                    THEN [db EXCEPT !.tips[id] = VoteOff(@, principal[p])]
                    ELSE [db EXCEPT !.tips[id] = VoteOn(@, principal[p])]
           /\ req' = [req EXCEPT ![p] =
                   Respond([@ EXCEPT !.voted =
                               IF alreadyVoted THEN "false" ELSE "true"], 200)]
    /\ Frame

(***************************************************************************)
(* DELETE /api/tips/:id                                                    *)
(***************************************************************************)
DeleteTipFind(p) ==
    /\ At(p, "deleteTip", "start")
    /\ req' = [req EXCEPT ![p] =
            IF req[p].id \notin DOMAIN db.tips
            THEN Respond(@, 404)
            ELSE IF db.tips[req[p].id].author # principal[p]
            THEN Respond(@, 403)
            ELSE [@ EXCEPT !.pc = "delete"]]
    /\ UNCHANGED db
    /\ Frame

\* deleteOne; deletedCount is 0 when the tip is gone already
DeleteTipDelete(p) ==
    /\ At(p, "deleteTip", "delete")
    /\ db' = [db EXCEPT !.tips = Remove(@, req[p].id)]
    /\ req' = [req EXCEPT ![p] =
            Respond(@, IF req[p].id \in DOMAIN db.tips THEN 200 ELSE 404)]
    /\ Frame

(***************************************************************************)
(* PATCH /api/user-challenges/update/:id                                   *)
(***************************************************************************)
UpdateFind(p) ==
    /\ At(p, "updateProgress", "start")
    /\ req' = [req EXCEPT ![p] =
            IF req[p].id > Len(db.userChallenges)
            THEN Respond(@, 404)
            ELSE LET existing == db.userChallenges[req[p].id]
                     newActionsCompleted ==
                         Plus(Field(existing, "actionsCompleted"),
                              OrZero(req[p].body, "actionsCompleted"))
                     newProgress ==
                         NewProgress(newActionsCompleted,
                                     Divisor(req[p].body, existing))
                 IN [@ EXCEPT !.pc = "update",
                              !.local =
                                 [progress |-> newProgress,
                                  actionsCompleted |-> newActionsCompleted,
                                  co2Saved |->
                                      Plus(Field(existing, "co2Saved"),
                                           OrZero(req[p].body, "co2PerAction")),
                                  plasticReduced |->
                                      Plus(Field(existing, "plasticReduced"),
                                           OrZero(req[p].body, "plasticPerAction")),
                                  status |-> UpdateStatus(newProgress)]]]
    /\ UNCHANGED db
    /\ Frame

UpdateWrite(p) ==
    /\ At(p, "updateProgress", "update")
    /\ db' = [db EXCEPT !.userChallenges[req[p].id] = Set(@, req[p].local)]
    /\ req' = [req EXCEPT ![p] = Respond(@, 200)]
    /\ Frame

(***************************************************************************)
(* Specifications.  The routes on challenges and enrollments and the       *)
(* routes on tips work on different collections; each specification takes  *)
(* the routes of the collections it is about.                              *)
(***************************************************************************)
EmptyDb ==
    [users |-> <<>>,
     challenges |-> <<>>, nextChallenge |-> 1,
     tips |-> <<>>, nextTip |-> 1,
     userChallenges |-> <<>>,
     livestatics |-> <<>>]

Contents == {[title |-> "Plant", category |-> "Green"],
             [title |-> "Bike", category |-> "Transport"]}

\* one client: its requests are handled one after the other
Serial(in) ==
    /\ db = EmptyDb
    /\ req = [p \in Clients |-> Idle]
    /\ clients = {1}
    /\ principal \in {[p \in Clients |-> e] : e \in Emails}
    /\ inputs = in
    /\ now = 0

\* two clients: the steps of their requests interleave
Concurrent(in) ==
    /\ db = EmptyDb
    /\ req = [p \in Clients |-> Idle]
    /\ clients = Clients
    /\ principal \in [Clients -> Emails]
    /\ inputs = in
    /\ now = 0

\* a store an earlier deployment of the service left behind: each challenge
\* has one enrollment as the earlier revision of Join wrote it, with the
\* counters actionsCompleted, co2Saved and plasticReduced at 0
EarlierUserChallenge(challengeId, challenge) ==
    [email |-> "alice",
     userId |-> "u1",
     challengeId |-> challengeId,
     status |-> "Not Started",
     progress |-> Fin(0),
     actionsCompleted |-> Fin(0),
     totalActions |-> NumberOrZero(challenge),
     co2Saved |-> Fin(0),
     plasticReduced |-> Fin(0)]

EarlierDb(challenge) ==
    [EmptyDb EXCEPT
        !.challenges = <<Set(challenge, [_id |-> 1, createdAt |-> 0,
                                         updatedAt |-> 0, participants |-> 1])>>,
        !.nextChallenge = 2,
        !.userChallenges = <<EarlierUserChallenge(1, challenge)>>]

\* one client; the store is empty or was left by the earlier deployment
SerialOnStore(in) ==
    /\ db \in {EmptyDb} \cup
              {EarlierDb([createdBy |-> e, totalActions |-> t, title |-> c.title,
                          category |-> c.category, participants |-> 0]) :
                  e \in in.owners, t \in in.totals, c \in in.contents}
    /\ req = [p \in Clients |-> Idle]
    /\ clients = {1}
    /\ principal \in {[p \in Clients |-> e] : e \in Emails}
    /\ inputs = in
    /\ now = 0

ChallengeRoutes == {"postChallenge", "patchChallenge", "deleteChallenge"}

ChallengeSteps(p) ==
    \/ PostChallenge(p)
    \/ PatchChallengeFind(p)
    \/ PatchChallengeUpdate(p)
    \/ PatchChallengeRefetch(p)
    \/ DeleteChallengeFind(p)
    \/ DeleteChallengeDelete(p)

JoinSteps(p) ==
    \/ JoinCheck(p)
    \/ JoinFind(p)
    \/ JoinInc(p)
    \/ JoinInsert(p)

CompleteSteps(p) ==
    \/ StepFind(p)
    \/ StepUpdate(p)
    \/ StepChallenge(p)
    \/ StepStatistic(p)
    \/ StepRefetch(p)

TipRoutes == {"postTip", "putTip", "upvote", "deleteTip"}

TipSteps(p) ==
    \/ PostTip(p)
    \/ PutTipFind(p)
    \/ PutTipUpdate(p)
    \/ UpvoteFind(p)
    \/ UpvoteUpdate(p)
    \/ DeleteTipFind(p)
    \/ DeleteTipDelete(p)

\* Spec: challenges, enrollments and step completion, one request at a time
StepInputs ==
    [owners |-> {"alice"}, totals |-> {4}, contents |-> Contents,
     userIds |-> {"u1"}, stepIds |-> {"s1", "s2", "s3", "s4"},
     texts |-> {}, tokens |-> {"ok"}]

Next ==
    \E p \in Clients :
        \/ Send(p, ChallengeRoutes \cup {"join", "completeStep"})
        \/ Resend(p)
        \/ Retire(p)
        \/ ChallengeSteps(p)
        \/ JoinSteps(p)
        \/ CompleteSteps(p)

Spec == Serial(StepInputs) /\ [][Next]_vars

\* JoinSpec: challenges and enrollments, one request at a time
JoinInputs ==
    [owners |-> Emails, totals |-> {0, 4}, contents |-> Contents,
     userIds |-> {"u1", "u2"}, stepIds |-> {},
     texts |-> {}, tokens |-> {"ok"}]

JoinNext ==
    \E p \in Clients :
        \/ Send(p, ChallengeRoutes \cup {"join"})
        \/ Resend(p)
        \/ Retire(p)
        \/ ChallengeSteps(p)
        \/ JoinSteps(p)

JoinSpec == Serial(JoinInputs) /\ [][JoinNext]_vars

\* JoinRaceSpec: the same routes with two clients
JoinRaceInputs ==
    [owners |-> {"alice"}, totals |-> {4}, contents |-> Contents,
     userIds |-> {"u1"}, stepIds |-> {},
     texts |-> {}, tokens |-> {"ok"}]

JoinRaceNext ==
    \E p \in Clients :
        \/ Send(p, ChallengeRoutes \cup {"join"})
        \/ Retire(p)
        \/ ChallengeSteps(p)
        \/ JoinSteps(p)

JoinRaceSpec == Concurrent(JoinRaceInputs) /\ [][JoinRaceNext]_vars

\* OwnerSpec: the owner-gated routes of challenges and tips, one request at a
\* time
OwnerInputs ==
    [owners |-> Emails, totals |-> {4}, contents |-> Contents,
     userIds |-> {}, stepIds |-> {},
     texts |-> {"x", "y"}, tokens |-> {"ok"}]

OwnerNext ==
    \E p \in Clients :
        \/ Send(p, ChallengeRoutes \cup {"postTip", "putTip", "deleteTip"})
        \/ Resend(p)
        \/ Retire(p)
        \/ ChallengeSteps(p)
        \/ PostTip(p)
        \/ PutTipFind(p)
        \/ PutTipUpdate(p)
        \/ DeleteTipFind(p)
        \/ DeleteTipDelete(p)

OwnerSpec == Serial(OwnerInputs) /\ [][OwnerNext]_vars

\* TipSpec: the routes on tips, one request at a time
TipInputs ==
    [owners |-> Emails, totals |-> {}, contents |-> {},
     userIds |-> {}, stepIds |-> {},
     texts |-> {"x", "y"}, tokens |-> {"ok"}]

TipNext ==
    \E p \in Clients :
        \/ Send(p, TipRoutes)
        \/ Resend(p)
        \/ Retire(p)
        \/ TipSteps(p)

TipSpec == Serial(TipInputs) /\ [][TipNext]_vars

\* TipRaceSpec: posting, upvoting and deleting tips with two clients; carol
\* writes tips and is no client, so that both clients can vote on one tip
TipRaceInputs ==
    [owners |-> {"alice", "carol"}, totals |-> {}, contents |-> {},
     userIds |-> {}, stepIds |-> {},
     texts |-> {"x"}, tokens |-> {"ok"}]

TipRaceNext ==
    \E p \in Clients :
        \/ Send(p, {"postTip", "upvote", "deleteTip"})
        \/ Retire(p)
        \/ PostTip(p)
        \/ UpvoteFind(p)
        \/ UpvoteUpdate(p)
        \/ DeleteTipFind(p)
        \/ DeleteTipDelete(p)

TipRaceSpec == Concurrent(TipRaceInputs) /\ [][TipRaceNext]_vars

\* ProgressSpec: enrollments and their progress updates, one request at a time
ProgressInputs ==
    [owners |-> {"alice"}, totals |-> {0, 2}, contents |-> {[title |-> "Plant", category |-> "Green"]},
     userIds |-> {"u1"}, stepIds |-> {},
     texts |-> {}, tokens |-> {"ok"},
     actions |-> {0 - 1, 1, 2}, divisors |-> {0, 4}, deltas |-> {1}]

ProgressNext ==
    \E p \in Clients :
        \/ Send(p, {"postChallenge", "join", "updateProgress"})
        \/ Retire(p)
        \/ PostChallenge(p)
        \/ JoinSteps(p)
        \/ UpdateFind(p)
        \/ UpdateWrite(p)

ProgressSpec == SerialOnStore(ProgressInputs) /\ [][ProgressNext]_vars

\* AuthSpec: the routes that require a bearer token (and the two that create
\* challenges and tips), with requests that carry no token, a token the
\* identity provider rejects, or a valid one; one request at a time
AuthInputs ==
    [owners |-> {"bob"}, totals |-> {1}, contents |-> {[title |-> "Plant", category |-> "Green"]},
     userIds |-> {"u1"}, stepIds |-> {"s1"},
     texts |-> {"x"}, tokens |-> {"none", "bad", "ok"}, names |-> {"Al"},
     actions |-> {1}, divisors |-> {}, deltas |-> {}]

AuthNext ==
    \E p \in Clients :
        \/ Send(p, {"postUser", "postChallenge", "join", "updateProgress",
                    "completeStep", "postTip", "upvote"})
        \/ Retire(p)
        \/ UserFind(p)
        \/ UserUpdate(p)
        \/ UserInsert(p)
        \/ PostChallenge(p)
        \/ JoinSteps(p)
        \/ UpdateFind(p)
        \/ UpdateWrite(p)
        \/ CompleteSteps(p)
        \/ PostTip(p)
        \/ UpvoteFind(p)
        \/ UpvoteUpdate(p)

AuthSpec == Serial(AuthInputs) /\ [][AuthNext]_vars

\* FailSpec: challenges, enrollments and tips with store operations that may
\* throw, one request at a time
FailInputs ==
    [owners |-> {"alice"}, totals |-> {4}, contents |-> {[title |-> "Plant", category |-> "Green"]},
     userIds |-> {"u1"}, stepIds |-> {},
     texts |-> {"x"}, tokens |-> {"ok"}]

FailNext ==
    \E p \in Clients :
        \/ Send(p, ChallengeRoutes \cup {"join", "postTip", "deleteTip"})
        \/ Retire(p)
        \/ StoreThrows(p)
        \/ DefaultErrorHandler(p)
        \/ ChallengeSteps(p)
        \/ JoinSteps(p)
        \/ PostTip(p)
        \/ DeleteTipFind(p)
        \/ DeleteTipDelete(p)

FailSpec == Serial(FailInputs) /\ [][FailNext]_vars

\* RangeSpec: join, progress updates and step completion on one store, with
\* more step identifiers than a challenge has actions; one request at a time
RangeInputs ==
    [owners |-> {"alice"}, totals |-> {1}, contents |-> {[title |-> "Plant", category |-> "Green"]},
     userIds |-> {"u1"}, stepIds |-> {"s1", "s2"},
     texts |-> {}, tokens |-> {"ok"},
     actions |-> {1}, divisors |-> {}, deltas |-> {}]

RangeNext ==
    \E p \in Clients :
        \/ Send(p, {"postChallenge", "join", "updateProgress", "completeStep"})
        \/ Retire(p)
        \/ PostChallenge(p)
        \/ JoinSteps(p)
        \/ UpdateFind(p)
        \/ UpdateWrite(p)
        \/ CompleteSteps(p)

RangeSpec == SerialOnStore(RangeInputs) /\ [][RangeNext]_vars

\* StampSpec: the routes on challenges while time passes, one request at a
\* time
StampInputs ==
    [owners |-> Emails, totals |-> {4}, contents |-> Contents,
     userIds |-> {}, stepIds |-> {},
     texts |-> {}, tokens |-> {"ok"}]

StampNext ==
    \/ Tick
    \/ \E p \in Clients :
        \/ Send(p, ChallengeRoutes)
        \/ Retire(p)
        \/ ChallengeSteps(p)

StampSpec == Serial(StampInputs) /\ [][StampNext]_vars

\* the store after POST /api/challenges and a Join of user u1 by alice
JoinedDb(challenge) ==
    [EmptyDb EXCEPT
        !.challenges = <<Set(challenge, [_id |-> 1, createdAt |-> 0,
                                         updatedAt |-> 0, participants |-> 1])>>,
        !.nextChallenge = 2,
        !.userChallenges = <<NewUserChallenge("alice", "u1", 1, challenge)>>]

\* two clients; the store holds one challenge and one enrollment for it,
\* written by Join or left by the earlier deployment
ConcurrentOnStore(in) ==
    /\ db \in UNION {{JoinedDb(c), EarlierDb(c)} :
                     c \in {[createdBy |-> e, totalActions |-> t,
                              title |-> x.title, category |-> x.category,
                              participants |-> 0] :
                                e \in in.owners, t \in in.totals, x \in in.contents}}
    /\ req = [p \in Clients |-> Idle]
    /\ clients = Clients
    /\ principal \in [Clients -> Emails]
    /\ inputs = in
    /\ now = 0

\* UserSpec: self-registration, one request at a time, while time passes
UserInputs ==
    [owners |-> {}, totals |-> {}, contents |-> {}, userIds |-> {}, stepIds |-> {},
     texts |-> {}, tokens |-> {"ok"}, names |-> {"Al", "Ali"}]

UserNext ==
    \/ Tick
    \/ \E p \in Clients :
        \/ Send(p, {"postUser"})
        \/ Retire(p)
        \/ UserFind(p)
        \/ UserUpdate(p)
        \/ UserInsert(p)

UserSpec == Serial(UserInputs) /\ [][UserNext]_vars

\* UserRaceSpec: self-registration with two clients, which may share an email
UserRaceNext ==
    \E p \in Clients :
        \/ Send(p, {"postUser"})
        \/ Retire(p)
        \/ UserFind(p)
        \/ UserUpdate(p)
        \/ UserInsert(p)

UserRaceSpec == Concurrent(UserInputs) /\ [][UserRaceNext]_vars

\* the store after POST /api/challenges
PostedDb(challenge) ==
    [EmptyDb EXCEPT
        !.challenges = <<Set(challenge, [_id |-> 1, createdAt |-> 0,
                                         updatedAt |-> 0])>>,
        !.nextChallenge = 2]

\* two clients; the store holds one challenge that nobody has joined
ConcurrentOnChallenge(in) ==
    /\ db \in {PostedDb([createdBy |-> e, totalActions |-> t,
                         title |-> x.title, category |-> x.category,
                         participants |-> 0]) :
                    e \in in.owners, t \in in.totals, x \in in.contents}
    /\ req = [p \in Clients |-> Idle]
    /\ clients = Clients
    /\ principal \in [Clients -> Emails]
    /\ inputs = in
    /\ now = 0

\* CounterSpec: one challenge, updated (also in participants) and joined by
\* two clients at once, with store operations that may throw
CounterInputs ==
    [owners |-> {"alice"}, totals |-> {4}, contents |-> {[title |-> "Plant", category |-> "Green"]},
     userIds |-> {"u1"}, stepIds |-> {},
     texts |-> {}, tokens |-> {"ok"}, counts |-> {0}]

CounterNext ==
    \E p \in Clients :
        \/ Send(p, {"patchChallenge", "join"})
        \/ Retire(p)
        \/ StoreThrows(p)
        \/ PatchChallengeFind(p)
        \/ PatchChallengeUpdate(p)
        \/ PatchChallengeRefetch(p)
        \/ JoinSteps(p)

CounterSpec == ConcurrentOnChallenge(CounterInputs) /\ [][CounterNext]_vars

\* StatsSpec: registration, step completion, progress updates and the global
\* figures, one request at a time
StatsInputs ==
    [owners |-> {"alice"}, totals |-> {1}, contents |-> {[title |-> "Plant", category |-> "Green"]},
     userIds |-> {"u1"}, stepIds |-> {"s1"},
     texts |-> {}, tokens |-> {"ok"}, names |-> {"Al"},
     actions |-> {1}, divisors |-> {}, deltas |-> {}]

StatsNext ==
    \E p \in Clients :
        \/ Send(p, {"postUser", "updateProgress", "completeStep", "globalStats"})
        \/ Retire(p)
        \/ UserFind(p)
        \/ UserUpdate(p)
        \/ UserInsert(p)
        \/ UpdateFind(p)
        \/ UpdateWrite(p)
        \/ CompleteSteps(p)
        \/ StatsUsers(p)
        \/ StatsJoined(p)
        \/ StatsCompleted(p)

StatsSpec == SerialOnStore(StatsInputs) /\ [][StatsNext]_vars

\* StepRaceSpec: step completion with two clients
StepRaceInputs ==
    [owners |-> {"alice"}, totals |-> {2}, contents |-> {[title |-> "Plant", category |-> "Green"]},
     userIds |-> {"u1"}, stepIds |-> {"s1", "s2"},
     texts |-> {}, tokens |-> {"ok"}]

StepRaceNext ==
    \E p \in Clients :
        \/ Send(p, {"completeStep"})
        \/ Retire(p)
        \/ CompleteSteps(p)

StepRaceSpec == ConcurrentOnStore(StepRaceInputs) /\ [][StepRaceNext]_vars

(***************************************************************************)
(* Vocabulary of the properties.                                           *)
(***************************************************************************)
\* client p holds the response of a request to route op
Answered(p, op) == p \in clients /\ req[p].pc = "done" /\ req[p].op = op

\* that request was the second of two identical requests in sequence
Repeated(p) == req[p].prev # NoPrev

\* the enrollments of the pair (userId, challengeId) in store d
EnrollmentsOf(d, userId, challengeId) ==
    {i \in 1..Len(d.userChallenges) :
        /\ d.userChallenges[i].userId = userId
        /\ d.userChallenges[i].challengeId = challengeId}

\* the livestatics entries of the pair (userId, challengeId)
StatisticsOf(d, userId, challengeId) ==
    {i \in 1..Len(d.livestatics) :
        /\ d.livestatics[i].userId = userId
        /\ d.livestatics[i].challengeId = challengeId}

(***************************************************************************)
(* Properties of POST /api/challenges/join/:id                             *)
(***************************************************************************)
\* the first of two identical Join requests in sequence enrolled the user
JoinedThenRepeated(p) ==
    Answered(p, "join") /\ Repeated(p) /\ req[p].prev.status = 200

C2_OneEnrollmentPerPair ==
    \A u \in inputs.userIds, c \in ChallengeIds :
        Cardinality(EnrollmentsOf(db, u, c)) <= 1

\* C3: a successful Join increments participants by exactly 1 and inserts
\* exactly one enrollment with totalActions of the challenge, status
\* "Not Started", progress 0, and the counters actionsCompleted, co2Saved and
\* plasticReduced present and equal to 0.
C3_JoinInsertsZeroedEnrollment ==
    \A p \in Clients :
        (Answered(p, "join") /\ req[p].status = 200) =>
            LET before == req[p].before
                n == Len(db.userChallenges)
            IN  /\ db.challenges[req[p].id].participants =
                       before.challenges[req[p].id].participants + 1
                /\ n = Len(before.userChallenges) + 1
                /\ SubSeq(db.userChallenges, 1, n - 1) = before.userChallenges
                /\ db.userChallenges[n].totalActions =
                       before.challenges[req[p].id].totalActions
                /\ db.userChallenges[n].status = "Not Started"
                /\ db.userChallenges[n].progress = Fin(0)
                /\ \A f \in {"actionsCompleted", "co2Saved", "plasticReduced"} :
                       /\ f \in DOMAIN db.userChallenges[n]
                       /\ db.userChallenges[n][f] = 0

\* C4 as stated: Join on a challengeId that is not in the store fails with
\* NotFound (404) and leaves the store unchanged.
C4_JoinAbsentNotFound ==
    \A p \in Clients :
        (Answered(p, "join") /\ req[p].id \notin DOMAIN req[p].before.challenges) =>
            /\ req[p].status = 404
            /\ db = req[p].before

\* C4 as amended: Join on a challengeId that is not in the store leaves the
\* store unchanged; it fails with NotFound (404) when the user has no
\* enrollment for that id, and with 400 ("already joined") when an enrollment
\* made before the challenge was deleted is still there.
C4_JoinAbsentRejected ==
    \A p \in Clients :
        (Answered(p, "join") /\ req[p].id \notin DOMAIN req[p].before.challenges) =>
            /\ req[p].status =
                   IF EnrollmentsOf(req[p].before, req[p].userId, req[p].id) = {}
                   THEN 404 ELSE 400
            /\ db = req[p].before

C4_Witness ==
    \E p \in Clients :
        /\ Answered(p, "join")
        /\ req[p].id \notin DOMAIN req[p].before.challenges
        /\ req[p].status = 404

(***************************************************************************)
(* Properties of the owner-only routes                                     *)
(***************************************************************************)
OwnerOnly == {"patchChallenge", "deleteChallenge", "putTip", "deleteTip"}

\* the collection an owner-only route works on, and its owner field
Records(d, op) ==
    IF op \in {"patchChallenge", "deleteChallenge"} THEN d.challenges ELSE d.tips

OwnerOf(d, op, id) ==
    IF op \in {"patchChallenge", "deleteChallenge"}
    THEN d.challenges[id].createdBy ELSE d.tips[id].author

\* request of client p was an owner-only operation on a record that existed
\* and belonged to someone else
ByNonOwner(p, op) ==
    /\ Answered(p, op)
    /\ req[p].id \in DOMAIN Records(req[p].before, op)
    /\ OwnerOf(req[p].before, op, req[p].id) # principal[p]

\* C5: Update and Delete of a challenge (resp. tip) by a verified requester
\* whose email differs from createdBy (resp. author) return Forbidden (403)
\* and leave the record unchanged and still present.
C5_NonOwnerForbidden ==
    \A p \in Clients : \A op \in OwnerOnly :
        ByNonOwner(p, op) =>
            /\ req[p].status = 403
            /\ req[p].id \in DOMAIN Records(db, op)
            /\ Records(db, op)[req[p].id] = Records(req[p].before, op)[req[p].id]
            /\ db = req[p].before

C5_Witness ==
    \E p \in Clients :
        /\ ByNonOwner(p, "deleteChallenge")
        /\ req[p].status = 403
        /\ req[p].id \in DOMAIN db.challenges

\* C6: Update or Delete of a challenge or a tip whose identifier is not in
\* the store returns NotFound (404), for all four operations.
C6_AbsentNotFound ==
    \A p \in Clients : \A op \in OwnerOnly :
        (Answered(p, op) /\ req[p].id \notin DOMAIN Records(req[p].before, op)) =>
            req[p].status = 404

(***************************************************************************)
(* Properties of PUT /api/tips/:id/upvote                                  *)
(***************************************************************************)
\* the first of two identical toggles in sequence was carried out
ToggledThenRepeated(p) ==
    Answered(p, "upvote") /\ Repeated(p) /\ req[p].prev.status = 200

\* C7: two sequential toggles by a user who is not the tip's author, with no
\* other request on the tip in between, return voted true then false (false
\* then true if the user had voted already), and afterwards upvotes and
\* upvotedUsers equal their values before the first toggle.
C7_ToggleTwiceRestores ==
    \A p \in Clients :
        ToggledThenRepeated(p) =>
            LET id == req[p].id
                first == req[p].prev.before.tips[id]
            IN  /\ req[p].status = 200
                /\ req[p].prev.voted =
                       IF principal[p] \in first.upvotedUsers THEN "false" ELSE "true"
                /\ req[p].voted =
                       IF req[p].prev.voted = "true" THEN "false" ELSE "true"
                /\ db.tips[id].upvotes = first.upvotes
                /\ db.tips[id].upvotedUsers = first.upvotedUsers

C7_Witness ==
    \E p \in Clients :
        /\ ToggledThenRepeated(p)
        /\ req[p].prev.voted = "true"
        /\ req[p].voted = "false"

ByAuthor(p) ==
    /\ Answered(p, "upvote")
    /\ req[p].id \in DOMAIN req[p].before.tips
    /\ req[p].before.tips[req[p].id].author = principal[p]

\* C19: an upvote toggle by a requester whose verified email equals the tip's
\* author fails with BadRequest (400) and leaves upvotes and upvotedUsers
\* unchanged, and after any sequence of toggles the author's email is not a
\* member of the tip's upvotedUsers.
C19_AuthorNeverVotes ==
    /\ \A p \in Clients :
           ByAuthor(p) =>
               /\ req[p].status = 400
               /\ db = req[p].before
    /\ \A id \in DOMAIN db.tips :
           db.tips[id].author \notin db.tips[id].upvotedUsers

C19_Witness ==
    \E p \in Clients :
        /\ ByAuthor(p)
        /\ req[p].status = 400
        /\ req[p].id \in DOMAIN db.tips

(***************************************************************************)
(* Properties of PATCH /api/user-challenges/:id/complete-step              *)
(***************************************************************************)
\* the first of two identical complete-step requests in sequence succeeded
SteppedThenRepeated(p) ==
    Answered(p, "completeStep") /\ Repeated(p) /\ req[p].prev.status = 200

\* C9: a second CompleteStep with the same stepId on the same enrollment,
\* with no other write to the enrollment in between, leaves the length of
\* completedSteps and progress unchanged.
C9_RepeatedStepIdempotent ==
    \A p \in Clients :
        SteppedThenRepeated(p) =>
            /\ req[p].status = 200
            /\ BagCardinality(db.userChallenges[req[p].id].completedSteps) =
                   BagCardinality(req[p].before.userChallenges[req[p].id].completedSteps)
            /\ db.userChallenges[req[p].id].progress =
                   req[p].before.userChallenges[req[p].id].progress

C9_Witness ==
    \E p \in Clients :
        /\ SteppedThenRepeated(p)
        /\ req[p].status = 200
        /\ BagIn(req[p].stepId, db.userChallenges[req[p].id].completedSteps)

\* request of client p completed a new step of an enrollment made by Join on a
\* challenge with totalActions = 4 that is still in the store
NewStepOfFour(p) ==
    /\ Answered(p, "completeStep")
    /\ req[p].status = 200
    /\ req[p].before.userChallenges[req[p].id].totalActions = 4
    /\ ~BagIn(req[p].stepId, req[p].before.userChallenges[req[p].id].completedSteps)
    /\ req[p].before.userChallenges[req[p].id].challengeId \in DOMAIN db.challenges

\* the number of distinct steps completed once that request was answered
StepsDone(p) ==
    BagCardinality(req[p].before.userChallenges[req[p].id].completedSteps) + 1

\* C10: after Join on a challenge with totalActions = 4 and four sequential
\* CompleteStep calls with distinct stepIds the enrollment has progress 100
\* and status "completed" and livestatics holds exactly one entry for it,
\* carrying the challenge's title and category; after 1, 2 or 3 of the steps
\* there is no entry and status is "active".
C10_FourStepsComplete ==
    \A p \in Clients :
        NewStepOfFour(p) =>
            LET e == db.userChallenges[req[p].id]
                entries == StatisticsOf(db, e.userId, e.challengeId)
            IN  IF StepsDone(p) = 4
                THEN /\ e.progress = Fin(100)
                     /\ e.status = "completed"
                     /\ Cardinality(entries) = 1
                     /\ \A i \in entries :
                            /\ db.livestatics[i].challengeTitle =
                                   db.challenges[e.challengeId].title
                            /\ db.livestatics[i].category =
                                   db.challenges[e.challengeId].category
                ELSE /\ e.progress = Fin(25 * StepsDone(p))
                     /\ e.status = "active"
                     /\ entries = {}

C10_Witness ==
    \E p \in Clients :
        /\ NewStepOfFour(p)
        /\ StepsDone(p) = 4
        /\ db.userChallenges[req[p].id].status = "completed"
        /\ Len(db.livestatics) = 1

\* C11: over any sequence of CompleteStep calls on an enrollment, repeated
\* stepIds and calls after progress reached 100 included, livestatics never
\* holds more than one entry for that enrollment.
C11_OneStatisticPerEnrollment ==
    \A i \in 1..Len(db.userChallenges) :
        Cardinality(StatisticsOf(db, db.userChallenges[i].userId,
                                 db.userChallenges[i].challengeId)) <= 1

(***************************************************************************)
(* Properties of PATCH /api/user-challenges/update/:id                     *)
(***************************************************************************)
\* x <= y on JavaScript numbers (false when either side is NaN or undefined)
NumLeq(x, y) ==
    CASE x.kind \in {"NaN", "undefined"} \/ y.kind \in {"NaN", "undefined"} -> FALSE
      [] x.kind = "-Infinity" \/ y.kind = "Infinity" -> TRUE
      [] x.kind = "finite" /\ y.kind = "finite" -> x.n <= y.n
      [] OTHER -> FALSE

\* request of client p updated the progress of an enrollment that existed
Updated(p) ==
    /\ Answered(p, "updateProgress")
    /\ req[p].id <= Len(req[p].before.userChallenges)

\* C12: for every existing enrollment and every UpdateProgress call with
\* actionsCompleted >= 0, whatever totalActions the request supplies, the
\* progress stored after the call is >= the progress stored before it and
\* does not exceed 100.
C12_UpdateMonotonicClamped ==
    \A p \in Clients :
        (Updated(p) /\ OrZero(req[p].body, "actionsCompleted") >= 0) =>
            /\ NumLeq(req[p].before.userChallenges[req[p].id].progress,
                      db.userChallenges[req[p].id].progress)
            /\ ~Geq(db.userChallenges[req[p].id].progress, 101)

\* the divisor as the specification resolves it: the request's totalActions
\* if supplied, else the enrollment's
SuppliedDivisor(body, existing) ==
    IF "totalActions" \in DOMAIN body
    THEN body.totalActions ELSE existing.totalActions

\* C13: when UpdateProgress is called and the divisor resolves to 0 the call
\* fails with an error response and leaves the enrollment unchanged, and no
\* enrollment ever stores a progress that is not a finite number.
C13_ZeroDivisorRejected ==
    /\ \A p \in Clients :
           (/\ Updated(p)
            /\ SuppliedDivisor(req[p].body,
                               req[p].before.userChallenges[req[p].id]) = 0) =>
               /\ req[p].status >= 400
               /\ db = req[p].before
    /\ \A i \in 1..Len(db.userChallenges) :
           db.userChallenges[i].progress.kind = "finite"

(***************************************************************************)
(* Properties of the bearer-token check                                    *)
(***************************************************************************)
\* the routes the interface lists with Auth = required
AuthRequired == {"postUser", "join", "updateProgress", "completeStep", "upvote"}

\* C14: every route listed with Auth = required answers 401 when the bearer
\* credential is absent and 403 when it is invalid or expired, and in both
\* cases performs no write to the store.
C14_CredentialRequired ==
    \A p \in Clients : \A op \in AuthRequired :
        (Answered(p, op) /\ req[p].token # "ok") =>
            /\ req[p].status = IF req[p].token = "none" THEN 401 ELSE 403
            /\ db = req[p].before

(***************************************************************************)
(* Properties of failing store operations                                  *)
(***************************************************************************)
\* C15: whenever a store operation throws inside a handler, the error is
\* caught in that handler and the request is answered with a JSON error
\* response: no store failure escapes its handler, and no response comes from
\* anywhere else than the handler.
C15_FailuresCaught ==
    \A p \in Clients :
        /\ req[p].pc # "escaped"
        /\ (req[p].pc = "done" /\ req[p].status = 500) =>
               req[p].local # [sent |-> "html"]

\* counter f of enrollment e is the number that e0 held plus k
Accumulated(e0, e, f, k) ==
    /\ Field(e0, f).kind = "finite"
    /\ Field(e, f) = Fin(Field(e0, f).n + k)

\* C17: UpdateProgress on an existing enrollment stores actionsCompleted =
\* previous actionsCompleted + request actionsCompleted (default 0), co2Saved
\* and plasticReduced increased by the supplied deltas (default 0), and status
\* "Completed" if and only if the new progress is exactly 100, otherwise
\* "In Progress"; on an absent enrollment it fails with NotFound (404) and
\* writes nothing.
C17_UpdateAccumulates ==
    \A p \in Clients :
        Answered(p, "updateProgress") =>
            IF Updated(p)
            THEN LET e0 == req[p].before.userChallenges[req[p].id]
                     e == db.userChallenges[req[p].id]
                 IN  /\ req[p].status = 200
                     /\ Accumulated(e0, e, "actionsCompleted",
                                    OrZero(req[p].body, "actionsCompleted"))
                     /\ Accumulated(e0, e, "co2Saved",
                                    OrZero(req[p].body, "co2PerAction"))
                     /\ Accumulated(e0, e, "plasticReduced",
                                    OrZero(req[p].body, "plasticPerAction"))
                     /\ e.status = IF e.progress = Fin(100)
                                   THEN "Completed" ELSE "In Progress"
            ELSE /\ req[p].status = 404
                 /\ db = req[p].before

\* C16: in every reachable state every enrollment's progress lies in
\* [0,100], after any sequence of Join, UpdateProgress and CompleteStep calls,
\* also when CompleteStep records more distinct stepIds than the enrollment's
\* totalActions.
C16_ProgressInRange ==
    \A i \in 1..Len(db.userChallenges) :
        /\ db.userChallenges[i].progress.kind = "finite"
        /\ db.userChallenges[i].progress.n >= 0
        /\ db.userChallenges[i].progress.n <= 100

(***************************************************************************)
(* Properties of PATCH /api/challenges/:id                                 *)
(***************************************************************************)
\* request of client p was an update of a challenge that existed
Patched(p) ==
    /\ Answered(p, "patchChallenge")
    /\ req[p].id \in DOMAIN req[p].before.challenges

\* C18: an Update request, by any requester and with any body (also one that
\* carries _id or createdBy), leaves the challenge's createdBy and identifier
\* as they were, so that they keep their values of creation over any sequence
\* of updates; and every successful update stamps updatedAt with the time at
\* which it was handled.
C18_OwnerAndIdKept ==
    \A p \in Clients :
        Patched(p) =>
            /\ req[p].id \in DOMAIN db.challenges
            /\ db.challenges[req[p].id].createdBy =
                   req[p].before.challenges[req[p].id].createdBy
            /\ db.challenges[req[p].id]._id = req[p].id
            /\ db.challenges[req[p].id].createdAt =
                   req[p].before.challenges[req[p].id].createdAt
            /\ req[p].status = 200 =>
                   /\ db.challenges[req[p].id].updatedAt >= req[p].at
                   /\ db.challenges[req[p].id].updatedAt <= now
            /\ req[p].status # 200 => db = req[p].before

\* the owner sent a body with another createdBy and an _id, some time after
\* the challenge was created
C18_Witness ==
    \E p \in Clients :
        /\ Patched(p)
        /\ req[p].status = 200
        /\ "createdBy" \in DOMAIN req[p].body
        /\ req[p].body.createdBy # principal[p]
        /\ req[p].body._id # req[p].id
        /\ db.challenges[req[p].id].updatedAt >
               req[p].before.challenges[req[p].id].updatedAt

\* both clients hold the 200 answer of a CompleteStep on the same enrollment,
\* with different new stepIds, and both handlers had read the same document:
\* each read before the other wrote
BothReadThenWrote ==
    /\ \A p \in Clients : Answered(p, "completeStep") /\ req[p].status = 200
    /\ req[1].id = req[2].id
    /\ req[1].stepId # req[2].stepId
    /\ req[1].local.userChallenge = req[2].local.userChallenge
    /\ \A p \in Clients :
           ~BagIn(req[p].stepId, StepsOf(req[p].local.userChallenge))

\* C20: when two CompleteStep requests with distinct stepIds on one
\* enrollment both read before either writes, both succeed, and afterwards
\* completedSteps contains only one of the two stepIds and progress reflects
\* only one step: the last write wins.
C20_LastWriteWins ==
    BothReadThenWrote =>
        LET e == db.userChallenges[req[1].id]
            read == StepsOf(req[1].local.userChallenge)
        IN  /\ BagIn(req[1].stepId, e.completedSteps)
                 # BagIn(req[2].stepId, e.completedSteps)
            /\ BagCardinality(e.completedSteps) = BagCardinality(read) + 1
            /\ e.progress =
                   FloorPercent(BagCardinality(read) + 1, e.totalActions)

C20_Witness ==
    /\ BothReadThenWrote
    /\ BagCardinality(db.userChallenges[req[1].id].completedSteps) = 1
    /\ db.userChallenges[req[1].id].progress = Fin(50)

(***************************************************************************)
(* Properties of POST /api/user                                            *)
(***************************************************************************)
\* the documents of a users collection that carry the email
WithEmail(users, email) == {i \in 1..Len(users) : users[i].email = email}

\* request of client p was a registration, answered, for the email it is
\* authenticated with, and that email was in the store when it arrived
Refreshed(p) ==
    /\ Answered(p, "postUser")
    /\ req[p].body.email = principal[p]
    /\ WithEmail(req[p].before.users, req[p].body.email) # {}

\* C21: in every reachable state, also with several POST /api/user requests
\* for one email in progress at once, users holds at most one record per
\* email; a request for an email already present answers 200, has stamped
\* lastLogin, and neither creates nor deletes a record.
C21_EmailUnique ==
    /\ \A i, j \in 1..Len(db.users) :
           db.users[i].email = db.users[j].email => i = j
    /\ \A p \in Clients :
           Refreshed(p) =>
               /\ req[p].status = 200
               /\ Len(db.users) = Len(req[p].before.users)
               /\ \E i \in WithEmail(db.users, req[p].body.email) :
                      db.users[i].lastLogin >= req[p].at

(***************************************************************************)
(* The counter of a tip and its voters                                     *)
(***************************************************************************)
\* C22: for tips created with upvotes 0 and no upvotedUsers, in every
\* reachable state, also those reached by overlapping toggles of one user,
\* upvotes equals the number of emails in upvotedUsers (and so is never
\* negative).
C22_CounterMatchesVoters ==
    \A t \in DOMAIN db.tips :
        /\ db.tips[t].upvotes = Cardinality(db.tips[t].upvotedUsers)
        /\ db.tips[t].upvotes >= 0

(***************************************************************************)
(* The participants counter and the enrollments                            *)
(***************************************************************************)
\* the enrollments that reference challenge c
Enrolled(c) ==
    Cardinality({i \in 1..Len(db.userChallenges) :
                    db.userChallenges[i].challengeId = c})

\* the Join requests for c that have incremented and not yet inserted
BetweenWrites(c) ==
    Cardinality({p \in Clients : At(p, "join", "insert") /\ req[p].id = c})

\* what participants holds beyond the enrollments of c and the Joins between
\* their two writes
Excess(c) == db.challenges[c].participants - Enrolled(c) - BetweenWrites(c)

\* the Joins for c that this step ends with 500 between their two writes
FailedBetween(c) ==
    Cardinality({p \in Clients :
                    /\ At(p, "join", "insert") /\ req[p].id = c
                    /\ req'[p].pc = "done" /\ req'[p].status = 500})

\* this step is the updateOne of a PATCH of c whose body holds participants
WritesParticipants(c) ==
    \E p \in Clients :
        /\ At(p, "patchChallenge", "update") /\ req[p].id = c
        /\ "participants" \in DOMAIN req[p].local
        /\ req'[p].pc = "refetch"

\* C23 as stated: the counter of every challenge, from its creation on, is
\* the number of its enrollments plus one per Join between its two writes and
\* one per Join that failed between them; no step lowers it.
C23_CounterIsEnrollments ==
    [][\A c \in DOMAIN db.challenges \cap DOMAIN db'.challenges :
           /\ db'.challenges[c].participants >= db.challenges[c].participants
           /\ Excess(c)' = Excess(c) + FailedBetween(c)]_vars

\* C23: the same, for every step other than the write of a challenge update
\* whose body holds participants.
C23_CounterTracksJoins ==
    [][\A c \in DOMAIN db.challenges \cap DOMAIN db'.challenges :
           ~WritesParticipants(c) =>
               /\ db'.challenges[c].participants >= db.challenges[c].participants
               /\ Excess(c)' = Excess(c) + FailedBetween(c)]_vars

\* a Join failed between its two writes, no Join is in progress, and the
\* counter is one more than the enrollments
C23_Witness ==
    /\ \E p \in Clients :
           /\ Answered(p, "join") /\ req[p].status = 500
           /\ req[p].id \in DOMAIN db.challenges
           /\ db.challenges[req[p].id].participants = Enrolled(req[p].id) + 1
    /\ \A p \in Clients : ~(req[p].op = "join" /\ InFlight(p))

(***************************************************************************)
(* Completion                                                              *)
(***************************************************************************)
\* the enrollment is completed: a completed status with progress 100
Completed(userChallenge) ==
    /\ userChallenge.status \in {"completed", "Completed"}
    /\ userChallenge.progress = Fin(100)

\* C24: once an enrollment has a completed status with progress 100, no
\* UpdateProgress (with actionsCompleted >= 0) or CompleteStep call on it
\* returns its status to "active", "In Progress" or "Not Started" or lowers
\* its progress below 100.
C24_CompletionIrreversible ==
    [][\A i \in 1..Len(db.userChallenges) :
           Completed(db.userChallenges[i]) =>
               /\ db'.userChallenges[i].status \in {"completed", "Completed"}
               /\ Geq(db'.userChallenges[i].progress, 100)]_vars

(***************************************************************************)
(* Properties of GET /api/global-stats                                     *)
(***************************************************************************)
\* C25: the totalCompleted figure GET /api/global-stats returns is the
\* number of enrollments whose progress has reached 100, whichever of
\* CompleteStep and UpdateProgress completed them; totalJoined is the number
\* of enrollments and totalUsers the number of users.
C25_GlobalFigures ==
    \A p \in Clients :
        (Answered(p, "globalStats") /\ req[p].status = 200) =>
            /\ req[p].local.totalCompleted =
                   Cardinality({i \in 1..Len(db.userChallenges) :
                                   Geq(db.userChallenges[i].progress, 100)})
            /\ req[p].local.totalJoined = Len(db.userChallenges)
            /\ req[p].local.totalUsers = Len(db.users)

TypeOK ==
    /\ clients \subseteq Clients
    /\ principal \in [Clients -> Emails]
    /\ DOMAIN db.challenges \subseteq ChallengeIds
    /\ DOMAIN db.tips \subseteq TipIds
    /\ Len(db.userChallenges) <= MaxEnrollments

====
